---- MODULE Spec2Model ----
(***************************************************************************)
(* Model of alburnum/maas/flesh/__init__.py: the command registration and  *)
(* dispatch core of the MAAS command-line client.                          *)
(*                                                                         *)
(*   Spec           one run of main(): tree, parse, execute, recovery      *)
(*   SpecSubparsers the lazily materialized subcommand registry            *)
(*   SpecName       Command.name() as a function of the class identifier   *)
(***************************************************************************)
EXTENDS Integers, Sequences, FiniteSets, TLC

VARIABLES
    \* ---- one run of main() ----
    argv,            \* argv[1:] as parse_args is given it (empty until then)
    PROFILE_NAMES,   \* sorted profile names read at import time
    PROFILE_DEFAULT, \* name of the default profile, or None
    isatty,          \* sys.stdout.isatty()
    pc,              \* position of the run inside main()
    options,         \* main's local `options`: None or the parsed namespace
    parsed,          \* what parse_args did with argv (None before it ran)
    cmd,             \* the command instance whose __call__ is running
    session,         \* local `session` of the running __call__
    origin,          \* local `origin` of the running __call__
    exc,             \* the exception `except Exception` caught, or None
    escaped,         \* the exception that left main() uncaught, or None
    interrupted,     \* where a KeyboardInterrupt arrived ("no" if none did)
    log,             \* calls made so far, in order
    stderr,          \* what was written to standard error, in order
    exitStatus,      \* the process's exit status (-1 while running)
    exitBy,          \* "SystemExit", "return" or "uncaught" ("" while running)
    callResult,      \* value returned by the command's __call__
    \* ---- the subcommand registry ----
    nodes,           \* parser nodes: the registry attribute and its history
    registries,      \* registry objects created so far
    lastAccess,      \* the latest registry operation and its outcome
    steps,           \* number of registry operations performed
    \* ---- Command.name() ----
    ident,           \* cls.__name__, a sequence of characters
    nameResult,      \* the value returned by name()
    namePc           \* "ready" before the call, "done" after

mainVars == <<argv, PROFILE_NAMES, PROFILE_DEFAULT, isatty, pc, options, parsed,
              cmd, session, origin, exc, escaped, interrupted, log, stderr,
              exitStatus, exitBy, callResult>>
\* What a run starts from: the profiles read at import time and the terminal.
envVars == <<PROFILE_NAMES, PROFILE_DEFAULT, isatty>>
regVars == <<nodes, registries, lastAccess, steps>>
nameVars == <<ident, nameResult, namePc>>
vars == <<mainVars, regVars, nameVars>>

----------------------------------------------------------------------------
\* Bounds of the model.

\* Longest command line explored (number of arguments after the program name).
MaxArgs == 4

\* Most parser nodes created in a run of the registry model.
MaxNodes == 3

\* Most registry operations performed in a run of the registry model.
MaxSteps == 4

\* Longest class identifier enumerated exhaustively for name().
MaxIdLen == 4

----------------------------------------------------------------------------
\* Values.

\* Python's None, where the other values are strings.
None == "None"

\* Python's None, where the other values are records (options, exceptions).
NoValue == <<>>

\* A namespace with no attribute set.
EmptyNs == [a \in {} |-> None]

\* The arguments a command line is made of.
Tokens == {"--debug", "-h", "--profile-name", "--output-format",
           "shell", "list", "acquire", "nodes", "prod", "yaml"}

\* Arguments argparse classifies as option strings (they start with "-").
OptionLike == {"--debug", "-h", "--profile-name", "--output-format"}

\* tabular.RenderTarget, the closed set of render targets.
RenderTarget == {"pretty", "plain", "yaml"}

\* All command lines of at most n arguments.
SeqsUpTo(S, n) == UNION {[1..k -> S] : k \in 0..n}

\* The profile configurations a run can start from: (sorted names, default).
ProfileConfigs ==
    { <<names, d>> \in {<<>>, <<"dev", "prod">>} \X {None, "prod"} :
        d = None \/ \E i \in 1..Len(names) : names[i] = d }

\* Ordinary exceptions a collaborator may raise.
Exceptions == {[type |-> "CommandError", msg |-> "disk full"],
               [type |-> "ValueError", msg |-> "boom"]}

KeyboardInterrupt == [type |-> "KeyboardInterrupt", msg |-> ""]

\* Values a command's narrower execute may return.
Results == {"r0", "r1"}

----------------------------------------------------------------------------
\* The command tree prepare_parser builds.  A parser node is named by the
\* path of subcommand names leading to it; the root is the empty path.

Root == <<>>

\* The grouping-only verbs: subparsers with no command attached.
GroupNames == {"acquire", "launch", "release", "list"}

\* What the command-group modules (profiles, files, nodes, tags, users)
\* register: a command class under a parent node, by name.
SubmoduleCommands ==
    { [parent |-> <<"list">>, name |-> "nodes", cls |-> "OriginTableCommand"],
      [parent |-> <<"acquire">>, name |-> "nodes", cls |-> "OriginCommand"] }

\* The nodes of the tree after prepare_parser returned.
TreeNodes ==
    {Root, <<"shell">>} \cup {<<g>> : g \in GroupNames}
        \cup {Append(c.parent, c.name) : c \in SubmoduleCommands}

\* Names registered in the subcommand registry of a node.
Children(node) == {t \in Tokens \cup GroupNames : Append(node, t) \in TreeNodes}

\* The class of the command instance register() bound to a node ("none"
\* for the root and for grouping nodes, which get no execute default).
ClassOf(node) ==
    IF node = <<"shell">> THEN "cmd_shell"
    ELSE IF \E c \in SubmoduleCommands : Append(c.parent, c.name) = node
         THEN (CHOOSE c \in SubmoduleCommands : Append(c.parent, c.name) = node).cls
         ELSE "none"

\* OriginCommandBase.__init__ and cmd_shell.__init__ declare --profile-name.
HasProfileFlag(node) ==
    ClassOf(node) \in {"cmd_shell", "OriginCommand", "OriginTableCommand"}

\* ProfileRequired with the flag declared required=False, as the shell does.
ProfileNeverRequired(node) == FALSE

\* required=(PROFILE_DEFAULT is None) for profile-bound commands; the shell
\* declares the flag with required=False.
ProfileRequired(node) ==
    /\ ClassOf(node) \in {"OriginCommand", "OriginTableCommand"}
    /\ PROFILE_DEFAULT = None

\* TableCommand.__init__ declares --output-format.
HasOutputFlag(node) == ClassOf(node) = "OriginTableCommand"

\* TableCommand.__init__: the default render target follows the terminal.
DefaultTarget == IF isatty THEN "pretty" ELSE "plain"

\* The option strings a node's parser knows.
OptionsOf(node) ==
    {"-h"} \cup (IF node = Root THEN {"--debug"} ELSE {})
           \cup (IF HasProfileFlag(node) THEN {"--profile-name"} ELSE {})
           \cup (IF HasOutputFlag(node) THEN {"--output-format"} ELSE {})

\* Defaults with register() calling set_defaults(execute=...) on the parent
\* parser as well as on the command's own parser.
DefaultsOnParent(node) ==
    (IF node = Root THEN [debug |-> FALSE, execute |-> <<"shell">>] ELSE EmptyNs)
    @@ (IF HasProfileFlag(node) THEN [profile_name |-> PROFILE_DEFAULT] ELSE EmptyNs)
    @@ (IF HasOutputFlag(node) THEN [output_format |-> DefaultTarget] ELSE EmptyNs)
    @@ (IF ClassOf(node) # "none" THEN [execute |-> node] ELSE EmptyNs)

\* The namespace a node's parser starts from: each declared action's default,
\* then the parser-level defaults (set_defaults), execute among them.
Defaults(node) ==
    (IF node = Root THEN [debug |-> FALSE] ELSE EmptyNs)
    @@ (IF HasProfileFlag(node) THEN [profile_name |-> PROFILE_DEFAULT] ELSE EmptyNs)
    @@ (IF HasOutputFlag(node) THEN [output_format |-> DefaultTarget] ELSE EmptyNs)
    @@ (IF ClassOf(node) # "none" THEN [execute |-> node] ELSE EmptyNs)

\* choices= of an option that takes a value.
Choices(opt) ==
    IF opt = "--profile-name" THEN {PROFILE_NAMES[i] : i \in 1..Len(PROFILE_NAMES)}
    ELSE RenderTarget

\* dest= of an option that takes a value.
Dest(opt) == IF opt = "--profile-name" THEN "profile_name" ELSE "output_format"

----------------------------------------------------------------------------
\* parse_args, as argparse runs it over this tree.  A result is
\*   kind   "ok", "error" (parser.error was called) or "help" (-h)
\*   ns     the namespace built
\*   extras arguments no parser recognized
\*   msg    the message handed to parser.error
\*   path   the deepest parser node entered

ParseResult(kind, ns, extras, msg, path) ==
    [kind |-> kind, ns |-> ns, extras |-> extras, msg |-> msg, path |-> path]

\* The subparsers action copies every attribute of the subcommand's namespace
\* onto the parent's, overriding what is there.
MergeNamespace(parentNs, subNs) == subNs @@ parentNs

\* End of a node's arguments: the required-arguments check.
Finish(node, ns, extras, seen) ==
    IF ProfileRequired(node) /\ "profile_name" \notin seen
    THEN ParseResult("error", ns, extras, "the following arguments are required", node)
    ELSE ParseResult("ok", ns, extras, "", node)

RECURSIVE Scan(_, _, _, _, _, _)
\* parse_known_args of the parser at `node` over `args`.
ParseKnown(node, args) == Scan(node, args, 1, Defaults(node), <<>>, {})

\* The scan of args[i..] by the parser at `node`.
Scan(node, args, i, ns, extras, seen) ==
    IF i > Len(args) THEN Finish(node, ns, extras, seen)
    ELSE LET t == args[i] IN
      IF t \in OptionLike THEN
        IF t \notin OptionsOf(node) THEN
            \* an unknown option string is set aside and the scan goes on
            Scan(node, args, i + 1, ns, Append(extras, t), seen)
        ELSE IF t = "-h" THEN
            ParseResult("help", ns, extras, "", node)
        ELSE IF t = "--debug" THEN
            Scan(node, args, i + 1, [ns EXCEPT !.debug = TRUE], extras, seen)
        ELSE IF i + 1 > Len(args) \/ args[i + 1] \in OptionLike THEN
            ParseResult("error", ns, extras, "expected one argument", node)
        ELSE IF args[i + 1] \notin Choices(t) THEN
            ParseResult("error", ns, extras, "invalid choice", node)
        ELSE
            Scan(node, args, i + 2, [ns EXCEPT ![Dest(t)] = args[i + 1]], extras,
                 seen \cup {Dest(t)})
      ELSE IF Children(node) = {} THEN
        \* no subcommand registry: a stray positional is set aside
        Scan(node, args, i + 1, ns, Append(extras, t), seen)
      ELSE IF t \notin Children(node) THEN
        ParseResult("error", ns, extras, "invalid choice", node)
      ELSE
        \* the subcommand takes every remaining argument
        LET sub == ParseKnown(Append(node, t), SubSeq(args, i + 1, Len(args))) IN
        IF sub.kind # "ok" THEN sub
        ELSE LET r == Finish(node, MergeNamespace(ns, sub.ns), extras \o sub.extras, seen)
             IN [r EXCEPT !.path = sub.path]

\* parser.parse_args(argv[1:]): leftover arguments are an error.
ParseArgs(args) ==
    LET r == ParseKnown(Root, args) IN
    IF r.kind = "ok" /\ r.extras # <<>>
    THEN [r EXCEPT !.kind = "error", !.msg = "unrecognized arguments"]
    ELSE r

----------------------------------------------------------------------------
\* One run of main().

\* colorized(text): the colour markup survives only on a terminal.
colorized(text) == [text |-> text, colors |-> isatty]

\* str(error) of an exception.
Str(e) == e.msg

\* sys.exc_info()'s traceback of the exception being handled.
Traceback(e) == [of |-> e]

\* The status the interpreter ends the process with when an exception escapes
\* main(): 1 after printing the traceback; for a KeyboardInterrupt, 1 or
\* death by SIGINT (130), depending on the interpreter.
UncaughtStatus(e) == IF e.type = "KeyboardInterrupt" THEN {1, 130} ELSE {1}

\* ArgumentParser.exit(status, message): write the message to standard error
\* and raise SystemExit(status), which no handler of main() catches.
exit(status, message) ==
    /\ stderr' = Append(stderr, message)
    /\ exitStatus' = status
    /\ exitBy' = "SystemExit"
    /\ pc' = "exited"

\* ArgumentParser.error(message).
error(message) ==
    /\ log' = Append(log, [op |-> "error", msg |-> message])
    /\ exit(2, [prefix |-> colorized("Error: "), msg |-> message])

\* An exception leaves main() uncaught.
Propagate(e) ==
    /\ escaped' = e
    /\ exitBy' = "uncaught"
    /\ exitStatus' \in UncaughtStatus(e)
    /\ pc' = "exited"

\* EntersPostMortem with the debug flag ignored: always inspect.
EntersPostMortemAlways == TRUE

\* EntersPostMortem with the debug flag ignored: inspect only unparsed runs.
EntersPostMortemUnparsedOnly == options = NoValue

\* except Exception: does the handler enter the post-mortem inspector?
EntersPostMortem == IF options = NoValue THEN TRUE ELSE options.debug

\* The first stage of a command's __call__.
FirstStage(node, opts) ==
    IF ClassOf(node) = "cmd_shell" /\ opts.profile_name = None
    THEN "execute" ELSE "session"

\* The keyword arguments __call__ hands to the narrower execute.
Keywords(node, opts) ==
    IF ClassOf(node) = "OriginTableCommand"
    THEN [target |-> opts.output_format] ELSE EmptyNs

\* The state of a run of main() before main is entered.
MainInit ==
    /\ argv = <<>>
    /\ \E c \in ProfileConfigs : PROFILE_NAMES = c[1] /\ PROFILE_DEFAULT = c[2]
    /\ isatty \in BOOLEAN
    /\ options = NoValue
    /\ parsed = NoValue
    /\ cmd = NoValue
    /\ session = NoValue
    /\ origin = NoValue
    /\ exc = NoValue
    /\ escaped = NoValue
    /\ interrupted = "no"
    /\ log = <<>>
    /\ stderr = <<>>
    /\ exitStatus = -1
    /\ exitBy = ""
    /\ callResult = None

\* No parser node exists yet.
RegIdle ==
    /\ nodes = <<>>
    /\ registries = <<>>
    /\ lastAccess = NoValue
    /\ steps = 0

\* name() is not being called.
NameIdle ==
    /\ ident = <<>>
    /\ nameResult = <<>>
    /\ namePc = "off"

Init ==
    /\ MainInit
    /\ pc = "start"
    /\ RegIdle
    /\ NameIdle

\* main, line 312: prepare_parser(argv) builds the tree.
PrepareParser ==
    /\ pc = "start"
    /\ pc' = "parse"
    /\ log' = Append(log, [op |-> "prepare_parser"])
    /\ UNCHANGED <<argv, envVars, options, parsed, cmd, session, origin, exc,
                   escaped, interrupted, stderr, exitStatus, exitBy,
                   callResult, regVars, nameVars>>

\* A KeyboardInterrupt while the tree is built: line 312 is outside the try.
InterruptPrepareParser ==
    /\ pc = "start"
    /\ interrupted' = "prepare_parser"
    /\ Propagate(KeyboardInterrupt)
    /\ UNCHANGED <<argv, envVars, options, parsed, cmd, session, origin, exc,
                   log, stderr, callResult, regVars, nameVars>>

\* parse_args returned: main binds options and goes on to dispatch.
ParseOk(r) ==
    /\ options' = r.ns
    /\ pc' = "dispatch"
    /\ UNCHANGED <<exc, log, stderr, exitStatus, exitBy>>

\* ParseError with error() raising an ordinary exception instead of exiting.
ParseErrorRaises(r) ==
    /\ exc' = [type |-> "ArgumentError", msg |-> r.msg]
    /\ pc' = "handler"
    /\ UNCHANGED <<options, log, stderr, exitStatus, exitBy>>

\* parse_args failed: argparse calls parser.error, options stays None and
\* SystemExit(2) passes both handlers of main.
ParseError(r) ==
    /\ error(r.msg)
    /\ UNCHANGED <<options, exc>>

\* -h: argparse prints the help and exits with status 0.
ParseHelp(r) ==
    /\ log' = Append(log, [op |-> "print_help"])
    /\ exitStatus' = 0
    /\ exitBy' = "SystemExit"
    /\ pc' = "exited"
    /\ UNCHANGED <<options, exc, stderr>>

\* main, line 317: options = parser.parse_args(argv[1:]).
ParseArgsStep ==
    /\ pc = "parse"
    /\ \E args \in SeqsUpTo(Tokens, MaxArgs) : LET r == ParseArgs(args) IN
         /\ argv' = args
         /\ parsed' = r
         /\ CASE r.kind = "ok" -> ParseOk(r)
              [] r.kind = "error" -> ParseError(r)
              [] r.kind = "help" -> ParseHelp(r)
    /\ UNCHANGED <<envVars, cmd, session, origin, escaped, interrupted,
                   callResult, regVars, nameVars>>

\* main, lines 318-321: options has no execute attribute.
NoExecute ==
    /\ pc = "dispatch"
    /\ "execute" \notin DOMAIN options
    /\ error("No arguments given.")
    /\ UNCHANGED <<argv, envVars, options, parsed, cmd, session, origin, exc,
                   escaped, interrupted, callResult, regVars, nameVars>>

\* main, lines 319 and 323: execute(options) enters the command's __call__.
Execute ==
    /\ pc = "dispatch"
    /\ "execute" \in DOMAIN options
    /\ cmd' = options.execute
    /\ log' = Append(log, [op |-> "__call__", cmd |-> options.execute, options |-> options])
    /\ pc' = FirstStage(options.execute, options)
    /\ UNCHANGED <<argv, envVars, options, parsed, session, origin, exc,
                   escaped, interrupted, stderr, exitStatus, exitBy,
                   callResult, regVars, nameVars>>

\* __call__: bones.SessionAPI.fromProfileName(options.profile_name) returns.
SessionReturns ==
    /\ pc = "session"
    /\ session' = [profile |-> options.profile_name]
    /\ log' = Append(log, [op |-> "fromProfileName", arg |-> options.profile_name])
    /\ pc' = "origin"
    /\ UNCHANGED <<argv, envVars, options, parsed, cmd, origin, exc, escaped,
                   interrupted, stderr, exitStatus, exitBy, callResult,
                   regVars, nameVars>>

\* __call__: viscera.Origin(session) returns.
OriginReturns ==
    /\ pc = "origin"
    /\ origin' = [session |-> session]
    /\ log' = Append(log, [op |-> "Origin", arg |-> session])
    /\ pc' = "execute"
    /\ UNCHANGED <<argv, envVars, options, parsed, cmd, session, exc, escaped,
                   interrupted, stderr, exitStatus, exitBy, callResult,
                   regVars, nameVars>>

\* NarrowCall with the positional arguments in the order of the base class's
\* signature, execute(options, origin).
NarrowCallSwapped ==
    IF ClassOf(cmd) = "cmd_shell"
    THEN [op |-> "shell", cmd |-> cmd, namespace |-> origin]
    ELSE [op |-> "execute", cmd |-> cmd, args |-> <<options, origin>>,
          kwargs |-> Keywords(cmd, options)]

\* The call the command makes at stage "execute": the subclass's narrower
\* execute(origin, options[, target=...]), or the shell's console.
NarrowCall ==
    IF ClassOf(cmd) = "cmd_shell"
    THEN [op |-> "shell", cmd |-> cmd, namespace |-> origin]
    ELSE [op |-> "execute", cmd |-> cmd, args |-> <<origin, options>>,
          kwargs |-> Keywords(cmd, options)]

\* __call__: the narrower execute returns, __call__ returns its value and
\* main() ends.
ExecuteReturns ==
    /\ pc = "execute"
    /\ \E r \in Results :
         /\ log' = log \o <<NarrowCall, [op |-> "returned", value |-> r]>>
         /\ callResult' = (IF ClassOf(cmd) = "cmd_shell" THEN None ELSE r)
    /\ exitStatus' = 0
    /\ exitBy' = "return"
    /\ pc' = "exited"
    /\ UNCHANGED <<argv, envVars, options, parsed, cmd, session, origin, exc,
                   escaped, interrupted, stderr, regVars, nameVars>>

\* The collaborator called at the current stage raises an ordinary exception,
\* which reaches main's `except Exception`.
Raises ==
    /\ pc \in {"session", "origin", "execute"}
    /\ \E e \in Exceptions : exc' = e
    /\ log' = (IF pc = "execute" THEN Append(log, NarrowCall) ELSE log)
    /\ pc' = "handler"
    /\ UNCHANGED <<argv, envVars, options, parsed, cmd, session, origin,
                   escaped, interrupted, stderr, exitStatus, exitBy,
                   callResult, regVars, nameVars>>

\* A KeyboardInterrupt inside the try (parsing, or any stage of the command)
\* reaches `except KeyboardInterrupt`: raise SystemExit(1).
Interrupt ==
    /\ pc \in {"parse", "session", "origin", "execute"}
    /\ interrupted' = pc
    /\ log' = (IF pc = "execute" THEN Append(log, NarrowCall) ELSE log)
    /\ exitStatus' = 1
    /\ exitBy' = "SystemExit"
    /\ pc' = "exited"
    /\ UNCHANGED <<argv, envVars, options, parsed, cmd, session, origin, exc,
                   escaped, stderr, callResult, regVars, nameVars>>

\* main, lines 326-329: debug mode enters the post-mortem inspector.
HandlerDebug ==
    /\ pc = "handler"
    /\ EntersPostMortem
    /\ log' = Append(log, [op |-> "post_mortem", traceback |-> Traceback(exc)])
    /\ pc' = "post_mortem"
    /\ UNCHANGED <<argv, envVars, options, parsed, cmd, session, origin, exc,
                   escaped, interrupted, stderr, exitStatus, exitBy,
                   callResult, regVars, nameVars>>

\* main, lines 331-333: otherwise the failure is reported by parser.error.
HandlerError ==
    /\ pc = "handler"
    /\ ~EntersPostMortem
    /\ error(Str(exc))
    /\ UNCHANGED <<argv, envVars, options, parsed, cmd, session, origin, exc,
                   escaped, interrupted, callResult, regVars, nameVars>>

\* main, line 330: the inspector returned; the exception is re-raised.
PostMortemReturns ==
    /\ pc = "post_mortem"
    /\ log' = Append(log, [op |-> "raise", exc |-> exc])
    /\ Propagate(exc)
    /\ UNCHANGED <<argv, envVars, options, parsed, cmd, session, origin, exc,
                   interrupted, stderr, callResult, regVars, nameVars>>

\* A KeyboardInterrupt inside the inspector: raised within the handler, it is
\* not caught by the sibling `except KeyboardInterrupt`.
InterruptPostMortem ==
    /\ pc = "post_mortem"
    /\ interrupted' = "post_mortem"
    /\ Propagate(KeyboardInterrupt)
    /\ UNCHANGED <<argv, envVars, options, parsed, cmd, session, origin, exc,
                   log, stderr, callResult, regVars, nameVars>>

Next ==
    \/ PrepareParser
    \/ InterruptPrepareParser
    \/ ParseArgsStep
    \/ NoExecute
    \/ Execute
    \/ SessionReturns
    \/ OriginReturns
    \/ ExecuteReturns
    \/ Raises
    \/ Interrupt
    \/ HandlerDebug
    \/ HandlerError
    \/ PostMortemReturns
    \/ InterruptPostMortem

Spec == Init /\ [][Next]_vars

----------------------------------------------------------------------------
\* The subcommand registry of a parser node (ArgumentParser.subparsers).
\* Nodes are numbered in creation order, node 1 being the root parser;
\* registries are numbered in creation order, 0 meaning "attribute unset".

\* Names under which subparsers are registered in this model.
SubNames == {"shell", "list"}

\* A parser as its constructor leaves it: no __subparsers attribute, and
\* argparse's own add_subparsers not yet called on it.
NewNode(execute) == [subparsers |-> 0, materialized |-> 0, execute |-> execute]

\* What an accessor yields: the nodes and registries after it, the value it
\* returned (0 if it raised) and the exception it raised (None if none).
Outcome(ns, rs, value, raised) ==
    [nodes |-> ns, registries |-> rs, value |-> value, raised |-> raised]

\* argparse's add_subparsers(title="sub-commands"), reached through super():
\* it creates the registry, titled, with no metavar; on a parser that already
\* has one it calls self.error (SystemExit).
super_add_subparsers(n) ==
    IF nodes[n].materialized > 0
    THEN Outcome(nodes, registries, 0, "SystemExit")
    ELSE Outcome([nodes EXCEPT ![n].materialized = @ + 1],
                 Append(registries, [owner |-> n, title |-> "sub-commands",
                                     titleSets |-> 1, metavar |-> None,
                                     metavarSets |-> 0, choices |-> {}]),
                 Len(registries) + 1, None)

\* subparsers without the stored attribute: every access materializes.
subparsersUncached(n) ==
    LET made == super_add_subparsers(n) IN
    IF made.raised # None THEN made
    ELSE Outcome([made.nodes EXCEPT ![n].subparsers = made.value],
                 [made.registries EXCEPT ![made.value].metavar = "COMMAND",
                                         ![made.value].metavarSets = @ + 1],
                 made.value, None)

\* ArgumentParser.subparsers: return the stored registry, or on AttributeError
\* create it, set its metavar, store it and return it.
subparsers(n) ==
    IF nodes[n].subparsers # 0
    THEN Outcome(nodes, registries, nodes[n].subparsers, None)
    ELSE LET made == super_add_subparsers(n) IN
         IF made.raised # None THEN made
         ELSE Outcome([made.nodes EXCEPT ![n].subparsers = made.value],
                      [made.registries EXCEPT ![made.value].metavar = "COMMAND",
                                              ![made.value].metavarSets = @ + 1],
                      made.value, None)

\* The record kept of a registry operation.
Access(op, n, a, raised) ==
    [op |-> op, node |-> n, before |-> nodes[n].subparsers,
     after |-> a.nodes[n].subparsers, registry |-> a.value,
     created |-> Len(a.registries) - Len(registries),
     accessRaised |-> a.raised, raised |-> raised]

\* The child registered under `nm` in registry r of `rs` (0 if there is none).
Lookup(rs, r, nm) ==
    IF \E c \in rs[r].choices : c[1] = nm
    THEN (CHOOSE c \in rs[r].choices : c[1] = nm)[2]
    ELSE 0

\* The root parser exists; nothing was accessed yet.
RegInit ==
    /\ nodes = <<NewNode("none")>>
    /\ registries = <<>>
    /\ lastAccess = NoValue
    /\ steps = 0

\* A direct read of parser.subparsers.
AccessSubparsers ==
    /\ steps < MaxSteps
    /\ \E n \in 1..Len(nodes) : LET a == subparsers(n) IN
         /\ nodes' = a.nodes
         /\ registries' = a.registries
         /\ lastAccess' = Access("subparsers", n, a, a.raised)
    /\ steps' = steps + 1
    /\ UNCHANGED <<mainVars, nameVars>>

\* parser[name]: self.subparsers.choices[name].
GetItem ==
    /\ steps < MaxSteps
    /\ \E n \in 1..Len(nodes), nm \in SubNames : LET a == subparsers(n) IN
         /\ nodes' = a.nodes
         /\ registries' = a.registries
         /\ lastAccess' = Access("__getitem__", n, a,
                IF a.raised # None THEN a.raised
                ELSE IF Lookup(a.registries, a.value, nm) = 0 THEN "KeyError"
                ELSE None)
    /\ steps' = steps + 1
    /\ UNCHANGED <<mainVars, nameVars>>

\* parser.subparsers.add_parser(name, ...), then set_defaults(execute=...)
\* on the new parser when a command class registers itself.
AddParser(op, execute) ==
    /\ steps < MaxSteps
    /\ Len(nodes) < MaxNodes
    /\ \E n \in 1..Len(nodes), nm \in SubNames : LET a == subparsers(n) IN
         /\ lastAccess' = Access(op, n, a, a.raised)
         /\ IF a.raised # None
            THEN nodes' = a.nodes /\ registries' = a.registries
            ELSE /\ Lookup(a.registries, a.value, nm) = 0
                 /\ nodes' = Append(a.nodes, NewNode(execute))
                 /\ registries' = [a.registries EXCEPT ![a.value].choices =
                                       @ \cup {<<nm, Len(a.nodes) + 1>>}]
    /\ steps' = steps + 1
    /\ UNCHANGED <<mainVars, nameVars>>

\* Command.register(parser, name).
Register == AddParser("register", "command")

\* prepare_parser's grouping nodes: parser.subparsers.add_parser(verb).
AddGroup == AddParser("add_parser", "none")

\* ArgumentParser.add_subparsers(): disabled, it raises NotImplementedError.
AddSubparsers ==
    /\ steps < MaxSteps
    /\ \E n \in 1..Len(nodes) :
         lastAccess' = Access("add_subparsers", n,
                              Outcome(nodes, registries, 0, None),
                              "NotImplementedError")
    /\ steps' = steps + 1
    /\ UNCHANGED <<nodes, registries, mainVars, nameVars>>

SubparsersInit ==
    /\ MainInit
    /\ PROFILE_NAMES = <<>>
    /\ isatty = FALSE
    /\ pc = "off"
    /\ RegInit
    /\ NameIdle

SubparsersNext ==
    \/ AccessSubparsers
    \/ GetItem
    \/ Register
    \/ AddGroup
    \/ AddSubparsers

SpecSubparsers == SubparsersInit /\ [][SubparsersNext]_vars

----------------------------------------------------------------------------
\* Command.name().  A class identifier is a sequence of characters.

\* The characters identifiers are enumerated over.
Alphabet == {"c", "m", "d", "_", "C", "x"}

CmdFooBar == <<"C", "m", "d", "F", "o", "o", "B", "a", "r">>
cmd_list_nodes == <<"c", "m", "d", "_", "l", "i", "s", "t", "_", "n", "o", "d", "e", "s">>
cmd_cmd_x == <<"c", "m", "d", "_", "c", "m", "d", "_", "x">>
cmd_shell == <<"c", "m", "d", "_", "s", "h", "e", "l", "l">>

\* The class identifiers name() is called on.
Identifiers ==
    UNION {[1..k -> Alphabet] : k \in 1..MaxIdLen}
        \cup {CmdFooBar, cmd_list_nodes, cmd_cmd_x, cmd_shell}

\* str.lower() on one character.
LowerChar(c) ==
    CASE c = "C" -> "c"
      [] c = "M" -> "m"
      [] c = "D" -> "d"
      [] c = "F" -> "f"
      [] c = "B" -> "b"
      [] OTHER -> c

\* str.replace("_", "-").
Replace(s) == [i \in 1..Len(s) |-> IF s[i] = "_" THEN "-" ELSE s[i]]

\* str.lower().
Lower(s) == [i \in 1..Len(s) |-> LowerChar(s[i])]

\* str.startswith(prefix).
StartsWith(s, prefix) ==
    Len(s) >= Len(prefix) /\ SubSeq(s, 1, Len(prefix)) = prefix

RECURSIVE nameStripAll(_)
\* name() stripping every leading "cmd-", not only the first.
nameStripAll(clsName) ==
    LET n == Lower(Replace(clsName)) IN
    IF StartsWith(n, <<"c", "m", "d", "-">>) /\ Len(n) > 4
    THEN nameStripAll(SubSeq(n, 5, Len(n)))
    ELSE IF StartsWith(n, <<"c", "m", "d", "-">>) THEN <<>> ELSE n

\* Command.name(): cls.__name__.replace("_", "-").lower(), then name[4:] if
\* it starts with "cmd-".
name(clsName) ==
    LET n == Lower(Replace(clsName)) IN
    IF StartsWith(n, <<"c", "m", "d", "-">>) THEN SubSeq(n, 5, Len(n)) ELSE n

NameInit ==
    /\ MainInit
    /\ PROFILE_NAMES = <<>>
    /\ isatty = FALSE
    /\ pc = "off"
    /\ RegIdle
    /\ ident \in Identifiers
    /\ nameResult = <<>>
    /\ namePc = "ready"

\* cls.name() is called; it may be called again.
CallName ==
    /\ namePc \in {"ready", "done"}
    /\ nameResult' = name(ident)
    /\ namePc' = "done"
    /\ UNCHANGED <<ident, mainVars, regVars>>

NameNext == CallName

SpecName == NameInit /\ [][NameNext]_vars

----------------------------------------------------------------------------
\* Properties.

\* Positions of the calls of `op` in the log.
Indices(op) == {i \in 1..Len(log) : log[i].op = op}

\* Number of calls of `op` made so far.
Count(op) == Cardinality(Indices(op))

\* The elements of a sequence.
Range(s) == {s[i] : i \in 1..Len(s)}

\* args[i] is a word that is neither an option nor an option's value.
IsWord(args, i) ==
    /\ args[i] \notin OptionLike
    /\ i = 1 \/ args[i - 1] \notin {"--profile-name", "--output-format"}

\* The command path typed on a command line: its words, in order.
CommandPath(args) ==
    LET idx == {i \in 1..Len(args) : IsWord(args, i)} IN
    [k \in 1..Cardinality(idx) |->
        args[CHOOSE i \in idx : Cardinality({j \in idx : j <= i}) = k]]

\* The node's command is an OriginCommand or an OriginTableCommand.
ProfileBound(node) == ClassOf(node) \in {"OriginCommand", "OriginTableCommand"}

\* --profile-name appears on the command line.
FlagGiven(args) == "--profile-name" \in Range(args)

\* The values --profile-name is given on the command line.
SuppliedValues(args) ==
    {args[i + 1] : i \in {j \in 1..(Len(args) - 1) : args[j] = "--profile-name"}}

\* C1: with parsing completed, --debug unset and execute raising an ordinary
\* exception, the post-mortem inspector is never entered, the exception's
\* string form is reported once through parser.error behind the colorized
\* "Error:" prefix, and the process exits with status 2.
C1_QuietFailureIsReported ==
    (exc \in Exceptions /\ options # NoValue /\ ~options.debug) =>
        /\ Count("post_mortem") = 0
        /\ pc \in {"handler", "exited"}
        /\ pc = "exited" =>
             /\ exitStatus = 2
             /\ exitBy = "SystemExit"
             /\ escaped = NoValue
             /\ Indices("error") = {Len(log)}
             /\ log[Len(log)].msg = exc.msg
             /\ stderr = <<[prefix |-> [text |-> "Error: ", colors |-> isatty],
                            msg |-> exc.msg]>>

\* C1 witness: CommandError("disk full") raised without --debug ended in
\* exit status 2.
C1_Witness ==
    /\ pc = "exited"
    /\ exc = [type |-> "CommandError", msg |-> "disk full"]
    /\ ~options.debug
    /\ exitStatus = 2

\* C2: with --debug set and execute raising an ordinary exception, the
\* inspector is entered exactly once with that failure's traceback, the same
\* exception is re-raised only after the inspector returned, the process
\* ends with a non-zero status and parser.error (status 2) is never used.
C2_DebugFailureIsInspected ==
    (exc \in Exceptions /\ options # NoValue /\ options.debug) =>
        /\ Count("error") = 0
        /\ stderr = <<>>
        /\ exitStatus # 2
        /\ Count("post_mortem") = (IF pc = "handler" THEN 0 ELSE 1)
        /\ \A i \in Indices("post_mortem") : log[i].traceback = [of |-> exc]
        /\ \A j \in Indices("raise") :
             /\ log[j].exc = exc
             /\ j = Len(log)
             /\ Indices("post_mortem") = {j - 1}
        /\ pc = "exited" =>
             /\ exitBy = "uncaught"
             /\ exitStatus > 0
             /\ IF interrupted = "no"
                THEN escaped = exc /\ Count("raise") = 1
                ELSE escaped = KeyboardInterrupt /\ Count("raise") = 0

\* C2 witness: a --debug run whose execute raised was inspected, the
\* exception re-raised and the process ended with status 1.
C2_Witness ==
    /\ pc = "exited"
    /\ exc \in Exceptions
    /\ options.debug
    /\ escaped = exc
    /\ Count("post_mortem") = 1
    /\ exitStatus = 1

\* C3: a KeyboardInterrupt, wherever it arrives in a run of main() (tree
\* building, parsing, execute, post-mortem inspection) and whatever the
\* debug flag, ends the process with status 1, and neither post_mortem nor
\* parser.error is invoked because of it.
C3_InterruptExitsWithOne ==
    (pc = "exited" /\ interrupted # "no") =>
        /\ exitStatus = 1
        /\ Count("error") = 0
        /\ interrupted # "post_mortem" => Count("post_mortem") = 0

\* C4: when parsing resolves no execute entry point (no arguments, or a path
\* ending at a grouping node) no command is invoked and "No arguments given."
\* is reported through parser.error with exit status 2; when one is resolved
\* it is that of the deepest subcommand on the command line, and it is
\* invoked exactly once with the resolved options.
C4_DispatchResolvesDeepestCommand ==
    (parsed # NoValue /\ parsed.kind = "ok") =>
        LET path == CommandPath(argv) IN
        /\ ("execute" \in DOMAIN options) <=> (ClassOf(path) # "none")
        /\ "execute" \notin DOMAIN options =>
             /\ Count("__call__") = 0
             /\ pc \in {"dispatch", "exited"}
             /\ pc = "exited" =>
                  /\ log[Len(log)] = [op |-> "error", msg |-> "No arguments given."]
                  /\ Count("error") = 1
                  /\ exitStatus = 2
        /\ "execute" \in DOMAIN options =>
             /\ options.execute = path
             /\ Count("__call__") = (IF pc = "dispatch" THEN 0 ELSE 1)
             /\ \A i \in Indices("__call__") :
                  log[i] = [op |-> "__call__", cmd |-> path, options |-> options]
             /\ \A i \in Indices("error") : log[i].msg # "No arguments given."

\* C4 witness: a command line naming only the grouping node "list" ended
\* with "No arguments given." and status 2.
C4_Witness ==
    /\ pc = "exited"
    /\ parsed # NoValue
    /\ parsed.kind = "ok"
    /\ parsed.path = <<"list">>
    /\ log[Len(log)] = [op |-> "error", msg |-> "No arguments given."]
    /\ exitStatus = 2

\* C5: a run whose argument parsing fails through parser.error exits with
\* status 2 and never calls post_mortem, with or without --debug on the
\* command line, although options is still None when parsing fails; the same
\* holds when no subcommand was given.
C5_ParseErrorNeverInspected ==
    /\ (parsed # NoValue /\ parsed.kind = "error") =>
          /\ pc = "exited"
          /\ exitStatus = 2
          /\ exitBy = "SystemExit"
          /\ options = NoValue
          /\ Count("error") = 1
          /\ Count("post_mortem") = 0
    /\ (Count("error") > 0 /\ exc = NoValue) =>
          /\ exitStatus = 2
          /\ Count("post_mortem") = 0

\* C5 witness: parsing failed with --debug on the command line.
C5_Witness ==
    /\ pc = "exited"
    /\ parsed # NoValue
    /\ parsed.kind = "error"
    /\ "--debug" \in Range(argv)
    /\ options = NoValue
    /\ exitStatus = 2

\* C6: the registry of a parser node is materialized at most once: the first
\* access creates it and sets its title and metavar, every later access
\* (direct, through __getitem__, through register or add_parser) returns the
\* same registry without raising and creates nothing, and add_subparsers
\* always fails without materializing anything.
C6_RegistryMaterializedOnce ==
    /\ \A n \in 1..Len(nodes) :
         /\ nodes[n].materialized <= 1
         /\ Cardinality({r \in 1..Len(registries) : registries[r].owner = n})
                = nodes[n].materialized
         /\ IF nodes[n].subparsers = 0 THEN nodes[n].materialized = 0
            ELSE registries[nodes[n].subparsers].owner = n
    /\ \A r \in 1..Len(registries) :
         /\ registries[r].title = "sub-commands"
         /\ registries[r].titleSets = 1
         /\ registries[r].metavar = "COMMAND"
         /\ registries[r].metavarSets = 1
    /\ lastAccess # NoValue =>
         IF lastAccess.op = "add_subparsers"
         THEN /\ lastAccess.raised = "NotImplementedError"
              /\ lastAccess.created = 0
              /\ lastAccess.after = lastAccess.before
         ELSE /\ lastAccess.accessRaised = None
              /\ lastAccess.registry # 0
              /\ lastAccess.registry = lastAccess.after
              /\ IF lastAccess.before # 0
                 THEN lastAccess.registry = lastAccess.before /\ lastAccess.created = 0
                 ELSE lastAccess.created = 1

\* C6 witness: register() reached a node whose registry already existed.
C6_Witness ==
    /\ lastAccess # NoValue
    /\ lastAccess.op = "register"
    /\ lastAccess.before # 0
    /\ lastAccess.registry = lastAccess.before

\* C7: an invocation of a profile-bound command with resolved profile name p
\* constructs one session for p, then one origin from that session, then
\* calls the narrower execute once with that origin first and the options
\* second (plus target = the output format for the combined archetype) and
\* returns its result; execute is not called unless both were constructed.
C7_ProfileBoundCallSequence ==
    ProfileBound(cmd) =>
        LET p == options.profile_name
            s == [profile |-> p]
            o == [session |-> s]
        IN
        /\ p \in Range(PROFILE_NAMES)
        /\ Count("fromProfileName") <= 1
        /\ Count("Origin") <= 1
        /\ Count("execute") <= 1
        /\ \A i \in Indices("fromProfileName") : log[i].arg = p
        /\ \A j \in Indices("Origin") :
             /\ log[j].arg = s
             /\ \E i \in Indices("fromProfileName") : i < j
        /\ \A k \in Indices("execute") :
             /\ log[k].cmd = cmd
             /\ log[k].args = <<o, options>>
             /\ log[k].kwargs =
                  (IF ClassOf(cmd) = "OriginTableCommand"
                   THEN [target |-> options.output_format] ELSE EmptyNs)
             /\ \E j \in Indices("Origin") : j < k
        /\ exitBy = "return" =>
             /\ Count("fromProfileName") = 1
             /\ Count("Origin") = 1
             /\ Count("execute") = 1
             /\ log[Len(log)].op = "returned"
             /\ callResult = log[Len(log)].value

\* C7 witness: a combined command ran to completion for profile "prod" with
\* the yaml render target.
C7_Witness ==
    /\ pc = "exited"
    /\ exitBy = "return"
    /\ ClassOf(cmd) = "OriginTableCommand"
    /\ options.profile_name = "prod"
    /\ options.output_format = "yaml"
    /\ Count("execute") = 1

\* C8: ArgumentParser.error emits the colorized "Error:" prefix and the
\* message on standard error, prints the full usage/help, and ends the
\* process with exit status 2.
C8_ErrorPrintsHelp ==
    Count("error") > 0 =>
        /\ exitStatus = 2
        /\ stderr # <<>>
        /\ stderr[Len(stderr)].prefix = [text |-> "Error: ", colors |-> isatty]
        /\ Count("print_help") > 0

\* C9 as claimed: CmdFooBar yields foo-bar, cmd_list_nodes yields list-nodes,
\* and cmd_cmd_x loses only its first cmd-.
C9_NameAsClaimed ==
    namePc = "done" =>
        /\ ident = CmdFooBar => nameResult = <<"f", "o", "o", "-", "b", "a", "r">>
        /\ ident = cmd_list_nodes =>
             nameResult = <<"l", "i", "s", "t", "-", "n", "o", "d", "e", "s">>
        /\ ident = cmd_cmd_x => nameResult = <<"c", "m", "d", "-", "x">>

\* C9 amended: name() is the identifier lower-cased with each underscore
\* replaced by a hyphen and a leading cmd- removed exactly once; no hyphen is
\* inserted at a change of case, so CmdFooBar yields cmdfoobar, while
\* cmd_list_nodes yields list-nodes and cmd_cmd_x yields cmd-x.
C9_NameDerivation ==
    namePc = "done" =>
        LET off == Len(ident) - Len(nameResult)
            prefixed == /\ Len(ident) >= 4
                        /\ ident[1] \in {"c", "C"}
                        /\ ident[2] \in {"m", "M"}
                        /\ ident[3] \in {"d", "D"}
                        /\ ident[4] = "_"
        IN
        /\ off = (IF prefixed THEN 4 ELSE 0)
        /\ \A i \in 1..Len(nameResult) :
             nameResult[i] =
                 (IF ident[i + off] = "_" THEN "-" ELSE LowerChar(ident[i + off]))
        /\ ident = CmdFooBar =>
             nameResult = <<"c", "m", "d", "f", "o", "o", "b", "a", "r">>
        /\ ident = cmd_list_nodes =>
             nameResult = <<"l", "i", "s", "t", "-", "n", "o", "d", "e", "s">>
        /\ ident = cmd_cmd_x => nameResult = <<"c", "m", "d", "-", "x">>

\* C9 witness: name() was called on CmdFooBar and returned cmdfoobar.
C9_Witness ==
    /\ namePc = "done"
    /\ ident = CmdFooBar
    /\ nameResult = <<"c", "m", "d", "f", "o", "o", "b", "a", "r">>

====
